---- MODULE Spec2Model ----
(***************************************************************************)
(* Order lifecycle and inventory reconciliation of the marketplace         *)
(* backend: controllers/orders.js (src/unnamed/part_002), the product      *)
(* controller (src/unnamed/part_001) and the Mongoose models               *)
(* (src/unnamed/part_000, src/backend/models/Product.js).                  *)
(*                                                                         *)
(* Every request handler is one atomic action.  A stored order document    *)
(* holds the fields the order controller writes and reads (user, shop,     *)
(* items, total, deliveryFee, status, statusHistory, rating); the hooks    *)
(* and validators of the schemas are applied on save for the paths the     *)
(* controller and the schema both name (status enum, stock >= 0,           *)
(* isAvailable, orderNumber, expiresAt).  A request's line item refers to  *)
(* a product document, so that orderItems[0].product.shop is the shop of   *)
(* the first requested product.                                            *)
(*                                                                         *)
(* An optional JavaScript value is a sequence of length 0 (undefined) or   *)
(* 1 (the value); an undefined status is the string NoStatus.  Time is     *)
(* counted in days.                                                        *)
(*                                                                         *)
(* calls holds the createOrder and cancelOrder requests that are run one   *)
(* awaited step at a time (createOrder: find the product, save it, count   *)
(* the day's orders, insert the order; cancelOrder: find the order, save   *)
(* it, then find and save the product of each line); the requests of the   *)
(* other specifications run in one step.                                   *)
(*                                                                         *)
(* audit is a history variable, one record per stored order: the stock of  *)
(* every product when the order's request arrived, whether any stock has   *)
(* changed since the order was stored, how many rateOrder requests for     *)
(* the order were answered with success, and how many units of every       *)
(* product cancelOrder has added back on the order's behalf.               *)
(***************************************************************************)
EXTENDS Integers, Sequences, FiniteSets, TLC

VARIABLES products, orders, notifications, shops, now, resp, audit, calls

vars == <<products, orders, notifications, shops, now, resp, audit, calls>>

----------------------------------------------------------------------------
(* Bounds of the model *)

\* orders persisted in the inventory specification
MaxOrders == 2
\* orders persisted in the lifecycle specification
MaxTracked == 1
\* orders persisted in the rating specification
MaxRated == 2
\* orders persisted in the numbering specification
MaxNumbered == 3
MaxQty == 2
MaxItems == 2
\* status changes of one order
MaxHistory == 2
MaxTime == 1
\* successful rateOrder responses counted per order
MaxRateOk == 2
\* createOrder requests that run step by step
MaxCalls == 2
\* notifications stored in the notification specification
MaxNotifications == 4
\* the last day of the notification specification
MaxClock == 31
MaxShopRatings == 2
MaxReleaseHistory == 3
InitStock == 3

----------------------------------------------------------------------------
(* Program constants *)

FreeDeliveryAbove == 500
DeliveryFlatFee == 50
ExpiryDays == 30
MinRating == 1
MaxRating == 5

----------------------------------------------------------------------------
(* The data the requests range over *)

Customers == {"c1", "c2"}
Owners == {"o1", "o2"}
Shops == {"s1", "s2"}
ProductIds == {"p1", "p2", "px"}

\* req.user.shop of a shop owner
UserShop(u) == IF u = "o1" THEN "s1" ELSE "s2"

Undefined == <<>>
Some(v) == <<v>>
IsDefined(x) == x # <<>>

OrderStatuses ==
    {"pending", "confirmed", "preparing", "ready_for_pickup",
     "out_for_delivery", "delivered", "cancelled", "refunded"}

StatusInputs == OrderStatuses \cup {"archived"}

\* a status that is undefined, where statuses are compared as strings
NoStatus == "<undefined>"

\* req.body.status: a status of the enum, another string, or none
StatusBodies == StatusInputs \cup {NoStatus}

RatingInputs == {Undefined, Some(0), Some(4), Some(5), Some(6)}

\* req.body of PUT /products/:id
UpdateBodies ==
    [stock : {Undefined, Some(-1), Some(0), Some(2)},
     price : {Undefined},
     isAvailable : {Undefined}]
    \cup [stock : {Undefined}, price : {Some(100)}, isAvailable : {Undefined}]
    \cup [stock : {Undefined}, price : {Undefined}, isAvailable : {Some(FALSE)}]

\* req.body.stock of PUT /products/:id/stock
StockInputs == {Undefined, Some(-1), Some(0), Some(2)}

RequestItems == [product : ProductIds, quantity : 1..MaxQty]

Requests == UNION {[1..n -> RequestItems] : n \in 0..MaxItems}

SingleRequests == {items \in Requests : Len(items) <= 1}

CallIds == 1..MaxCalls

\* a request that has not arrived yet
IdleCall == [pc |-> "idle"]

Users == Customers \cup Owners

\* req.params.id of a notification route: the stored notifications and
\* one id that names none
NotificationIds == 1..(Len(notifications) + 1)

\* req.params.id: the stored orders and one id that names no order
OrderIds == 1..(Len(orders) + 1)

----------------------------------------------------------------------------
(* Responses *)

StatusCode(err) ==
    CASE err = "none" -> 200
      [] err = "created" -> 201
      [] err = "NotFound" -> 404
      [] err = "Forbidden" -> 401
      [] err = "ServerError" -> 500
      [] OTHER -> 400

Response(op, err, oid) ==
    [op |-> op, err |-> err, code |-> StatusCode(err), order |-> oid]

----------------------------------------------------------------------------
(* Product model *)

ProductSaveNoHook(doc) == doc

\* productSchema.pre('save'): availability follows stock
ProductSave(doc) == [doc EXCEPT !.isAvailable = doc.stock > 0]

InitProducts ==
    [p \in {"p1", "p2"} |->
        [shop |-> IF p = "p1" THEN "s1" ELSE "s2",
         price |-> IF p = "p1" THEN 250 ELSE 300,
         stock |-> InitStock,
         isActive |-> TRUE,
         isAvailable |-> InitStock > 0]]

----------------------------------------------------------------------------
(* Notification model *)

StatusMessage(status) ==
    CASE status = "confirmed" -> "Your order has been confirmed and is being prepared."
      [] status = "preparing" -> "Your order is being prepared and will be ready soon."
      [] status = "ready_for_pickup" -> "Your order is ready for pickup!"
      [] status = "out_for_delivery" -> "Your order is out for delivery and will reach you soon."
      [] status = "delivered" -> "Your order has been delivered successfully!"
      [] OTHER -> "Your order status has been updated to " \o status \o "."

NotificationSaveNoHook(doc, t) == doc

\* notificationSchema.pre('save'): if (!this.expiresAt) the expiry is set
\* to 30 days from now
NotificationSave(doc, t) ==
    IF ~IsDefined(doc.expiresAt)
    THEN [doc EXCEPT !.expiresAt = Some(t + ExpiryDays)]
    ELSE doc

\* notificationSchema.statics.createOrderStatusNotification: this.create
\* of a document without expiresAt, with the schema defaults
OrderStatusNotification(userId, orderId, status, t) ==
    NotificationSave(
        [user |-> userId,
         type |-> "order_status",
         message |-> StatusMessage(status),
         orderId |-> orderId,
         priority |-> "medium",
         isRead |-> FALSE,
         isSent |-> FALSE,
         readAt |-> Undefined,
         sentAt |-> Undefined,
         createdAt |-> t,
         expiresAt |-> Undefined], t)

\* notificationSchema.methods.markAsRead
markAsRead(doc, t) ==
    NotificationSave([doc EXCEPT !.isRead = TRUE, !.readAt = Some(t)], t)

\* notificationSchema.methods.markAsSent
markAsSent(doc, t) ==
    NotificationSave([doc EXCEPT !.isSent = TRUE, !.sentAt = Some(t)], t)

markAllAsReadAnyUser(notifs, userId, t) ==
    [i \in DOMAIN notifs |->
        IF ~notifs[i].isRead
        THEN [notifs[i] EXCEPT !.isRead = TRUE, !.readAt = Some(t)]
        ELSE notifs[i]]

\* notificationSchema.statics.markAllAsRead:
\* updateMany({ user, isRead: false }, { isRead: true, readAt })
markAllAsRead(notifs, userId, t) ==
    [i \in DOMAIN notifs |->
        IF notifs[i].user = userId /\ ~notifs[i].isRead
        THEN [notifs[i] EXCEPT !.isRead = TRUE, !.readAt = Some(t)]
        ELSE notifs[i]]

UnexpiredOrDue(doc, t) == IsDefined(doc.expiresAt) /\ doc.expiresAt[1] >= t

\* expiresAt: { $gt: new Date() }: a document without the field does not
\* match
Unexpired(doc, t) == IsDefined(doc.expiresAt) /\ doc.expiresAt[1] > t

\* notificationSchema.statics.getUnreadCount:
\* countDocuments({ user, isRead: false, expiresAt: { $gt: new Date() } })
getUnreadCount(notifs, userId, t) ==
    Cardinality({i \in DOMAIN notifs :
                    /\ notifs[i].user = userId
                    /\ notifs[i].isRead = FALSE
                    /\ Unexpired(notifs[i], t)})

----------------------------------------------------------------------------
(* Shop model *)

RECURSIVE Gcd(_, _)
Gcd(a, b) == IF b = 0 THEN a ELSE Gcd(b, a % b)

\* the quotient n / d of two non-negative integers, d > 0, in lowest terms
Quotient(n, d) == LET g == Gcd(n, d) IN <<n \div g, d \div g>>

InitShops ==
    [s \in Shops |->
        [owner |-> IF s = "s1" THEN "o1" ELSE "o2",
         rating |-> <<0, 1>>,
         totalRatings |-> 0]]

----------------------------------------------------------------------------

(* Order model *)

StatusValidAny(status) == TRUE

\* orderSchema.status: the enum validator run by save(); the path is not
\* required, and validators do not run on an undefined value
StatusValid(status) == status = NoStatus \/ status \in OrderStatuses

\* An order read back from the store: a path that save() has unset
\* reads with its schema default (status: default 'pending')
Hydrate(order) ==
    IF order.status = NoStatus THEN [order EXCEPT !.status = "pending"]
    ELSE order

\* new Date() on day t of the model's clock: day 0 is 31 December 2024,
\* the days after it are the days of January 2025 (month as getMonth()
\* gives it, from 0)
Calendar(t) ==
    IF t = 0 THEN [year |-> 2024, month |-> 11, date |-> 31]
    ELSE IF t <= 31 THEN [year |-> 2025, month |-> 0, date |-> t]
    ELSE [year |-> 2025, month |-> 1, date |-> t - 31]

RECURSIVE PadStart(_, _, _)
\* String.prototype.padStart with a one-character fill
PadStart(str, targetLength, fill) ==
    IF Len(str) >= targetLength THEN str
    ELSE PadStart(fill \o str, targetLength, fill)

\* toString().slice(-2)
LastTwo(str) == IF Len(str) <= 2 THEN str ELSE SubSeq(str, Len(str) - 1, Len(str))

\* countDocuments({ createdAt: { $gte: todayStart, $lt: todayEnd } })
CountToday(ords, t) == Cardinality({i \in DOMAIN ords : ords[i].createdAt = t})

FormatOrderNumberNoIncrement(t, orderCount) ==
    LET date == Calendar(t)
    IN "ORD" \o LastTwo(ToString(date.year))
             \o PadStart(ToString(date.month + 1), 2, "0")
             \o PadStart(ToString(date.date), 2, "0")
             \o PadStart(ToString(orderCount), 4, "0")

\* `ORD${year}${month}${day}${sequence}`, sequence the count plus one
FormatOrderNumber(t, orderCount) ==
    LET date == Calendar(t)
        year == LastTwo(ToString(date.year))
        month == PadStart(ToString(date.month + 1), 2, "0")
        day == PadStart(ToString(date.date), 2, "0")
        sequence == PadStart(ToString(orderCount + 1), 4, "0")
    IN "ORD" \o year \o month \o day \o sequence

\* orderSchema.pre('save') on a new document: the daily sequence is the
\* number of orders created that day plus one
OrderNumber(ords, t) == FormatOrderNumber(t, CountToday(ords, t))

----------------------------------------------------------------------------
(* createOrder *)

LineItem(item, product) ==
    [product |-> item.product,
     quantity |-> item.quantity,
     price |-> product.price,
     total |-> product.price * item.quantity]

DeliveryFeeAtLeast(total) == IF total >= FreeDeliveryAbove THEN 0 ELSE DeliveryFlatFee

DeliveryFee(total) == IF total > FreeDeliveryAbove THEN 0 ELSE DeliveryFlatFee

ReserveKeepStock(product, quantity) == ProductSave(product)

\* product.stock -= item.quantity; await product.save()
Reserve(product, quantity) ==
    ProductSave([product EXCEPT !.stock = @ - quantity])

StockShortOrEqual(product, quantity) == product.stock <= quantity

\* if (product.stock < item.quantity)
StockShort(product, quantity) == product.stock < quantity

\* The loop over the requested items: the first failing item ends the
\* request; the products saved so far stay saved.
RECURSIVE ReserveItems(_, _, _, _, _)
ReserveItems(items, i, prods, orderItems, total) ==
    IF i > Len(items)
    THEN [err |-> "none", index |-> i, products |-> prods,
          orderItems |-> orderItems, total |-> total]
    ELSE LET item == items[i]
             p == item.product
             stop(e) == [err |-> e, index |-> i, products |-> prods,
                         orderItems |-> orderItems, total |-> total]
         IN IF p \notin DOMAIN prods THEN stop("NotFound")
            ELSE IF ~prods[p].isActive THEN stop("Unavailable")
            ELSE IF StockShort(prods[p], item.quantity) THEN stop("InsufficientStock")
            ELSE ReserveItems(items, i + 1,
                              [prods EXCEPT ![p] = Reserve(@, item.quantity)],
                              Append(orderItems, LineItem(item, prods[p])),
                              total + prods[p].price * item.quantity)

OrderShopLast(r) == r.products[r.orderItems[Len(r.orderItems)].product].shop

\* shop: orderItems[0].product.shop
OrderShop(r) == r.products[r.orderItems[1].product].shop

\* Order.create({...}) with the schema defaults and the order number
OrderDocument(userId, r, t, number) ==
    LET deliveryFee == DeliveryFee(r.total)
    IN [user |-> userId,
        shop |-> OrderShop(r),
        items |-> r.orderItems,
        total |-> r.total + deliveryFee,
        deliveryFee |-> deliveryFee,
        status |-> "pending",
        statusHistory |-> <<>>,
        rating |-> Undefined,
        actualDeliveryTime |-> Undefined,
        orderNumber |-> number,
        createdAt |-> t]

\* no unit of any product added back yet
NothingReleased == [p \in DOMAIN InitProducts |-> 0]

NewOrder(userId, r, t, ords) == OrderDocument(userId, r, t, OrderNumber(ords, t))

createOrder(userId, items) ==
    IF items = <<>>
    THEN /\ resp' = Response("createOrder", "NoItems", 0)
         /\ UNCHANGED <<products, orders, notifications, shops, now, audit, calls>>
    ELSE LET r == ReserveItems(items, 1, products, <<>>, 0)
         IN IF r.err # "none"
            THEN /\ products' = r.products
                 /\ resp' = Response("createOrder", r.err, 0)
                 /\ audit' = [i \in DOMAIN audit |->
                        IF r.products = products THEN audit[i]
                        ELSE [audit[i] EXCEPT !.untouched = FALSE]]
                 /\ UNCHANGED <<orders, notifications, shops, now, calls>>
            ELSE /\ LET order == NewOrder(userId, r, now, orders)
                        id == Len(orders) + 1
                    IN /\ orders' = Append(orders, order)
                       /\ notifications' = Append(notifications,
                              OrderStatusNotification(shops[order.shop].owner,
                                                      id, "pending", now))
                       /\ resp' = Response("createOrder", "created", id)
                       /\ audit' = Append(
                              [i \in DOMAIN audit |->
                                  [audit[i] EXCEPT !.untouched = FALSE]],
                              [stockBefore |-> [p \in DOMAIN products |-> products[p].stock],
                               untouched |-> TRUE,
                               ratedOk |-> 0,
                               released |-> NothingReleased])
                 /\ products' = r.products
                 /\ UNCHANGED <<shops, now, calls>>

----------------------------------------------------------------------------
(* createOrder for one line item, one awaited step at a time *)

SaveDecrement(stored, loaded, local) ==
    ProductSave([stored EXCEPT !.stock = @ - (loaded.stock - local.stock)])

\* await product.save(): the paths that differ from the loaded document
\* are written over the stored one
SaveModified(stored, loaded, local) ==
    LET hooked == ProductSave(local)
    IN [stored EXCEPT
           !.stock = IF hooked.stock # loaded.stock THEN hooked.stock ELSE @,
           !.isAvailable = IF hooked.isAvailable # loaded.isAvailable
                           THEN hooked.isAvailable ELSE @]

CallOrderNumberFresh(call, ords, t) == OrderNumber(ords, t)

\* the number built from the count the hook read before the insert
CallOrderNumber(call, ords, t) == FormatOrderNumber(t, call.orderCount)

EndCall(c, u, item, err) ==
    /\ calls' = [calls EXCEPT ![c] =
           [pc |-> "done", user |-> u, item |-> item, err |-> err]]
    /\ resp' = Response("createOrder", err, 0)
    /\ UNCHANGED <<products, orders, notifications, shops, now, audit>>

\* const product = await Product.findById(item.product), the three checks
\* and product.stock -= item.quantity on the loaded document
createOrderFind(c, u, item) ==
    /\ calls[c].pc = "idle"
    /\ LET p == item.product
       IN IF p \notin DOMAIN products THEN EndCall(c, u, item, "NotFound")
          ELSE IF ~products[p].isActive THEN EndCall(c, u, item, "Unavailable")
          ELSE IF StockShort(products[p], item.quantity)
          THEN EndCall(c, u, item, "InsufficientStock")
          ELSE /\ calls' = [calls EXCEPT ![c] =
                      [pc |-> "save", user |-> u, item |-> item,
                       loaded |-> products[p],
                       product |-> [products[p] EXCEPT !.stock = @ - item.quantity],
                       stockBefore |-> [q \in DOMAIN products |-> products[q].stock]]]
               /\ UNCHANGED <<products, orders, notifications, shops, now,
                              resp, audit>>

\* await product.save()
createOrderSave(c) ==
    /\ calls[c].pc = "save"
    /\ LET p == calls[c].item.product
       IN products' = [products EXCEPT
              ![p] = SaveModified(@, calls[c].loaded, calls[c].product)]
    /\ calls' = [calls EXCEPT ![c].pc = "count"]
    /\ audit' = [i \in DOMAIN audit |-> [audit[i] EXCEPT !.untouched = FALSE]]
    /\ UNCHANGED <<orders, notifications, shops, now, resp>>

\* Order.create: the pre('save') hook's await countDocuments(...)
createOrderCount(c) ==
    /\ calls[c].pc = "count"
    /\ calls' = [calls EXCEPT
           ![c] = [pc |-> "insert",
                   orderCount |-> CountToday(orders, now)] @@ @]
    /\ UNCHANGED <<products, orders, notifications, shops, now, resp, audit>>

\* the insert of the order, the notification for the shop owner and the
\* response
createOrderInsert(c) ==
    /\ calls[c].pc = "insert"
    /\ LET call == calls[c]
           r == [products |-> products,
                 orderItems |-> <<LineItem(call.item, call.loaded)>>,
                 total |-> call.loaded.price * call.item.quantity]
           order == OrderDocument(call.user, r, now,
                                  CallOrderNumber(call, orders, now))
           id == Len(orders) + 1
       IN /\ orders' = Append(orders, order)
          /\ notifications' = Append(notifications,
                 OrderStatusNotification(shops[order.shop].owner, id,
                                         "pending", now))
          /\ resp' = Response("createOrder", "created", id)
          /\ audit' = Append(audit, [stockBefore |-> call.stockBefore,
                                     untouched |-> FALSE,
                                     ratedOk |-> 0,
                                     released |-> NothingReleased])
          /\ calls' = [calls EXCEPT
                 ![c] = [pc |-> "done", err |-> "created", order |-> id] @@ @]
    /\ UNCHANGED <<products, shops, now>>

----------------------------------------------------------------------------
(* updateOrderStatus *)

HistoryEntry(status, userId, t) ==
    [status |-> status, updatedBy |-> userId, updatedAt |-> t]

SetStatusAndRefund(order, status, userId, t) ==
    [order EXCEPT !.status = status,
                  !.statusHistory = Append(@, HistoryEntry(status, userId, t)),
                  !.total = IF status = "cancelled" THEN 0 ELSE @]

\* order.status = status; order.statusHistory.push({...})
SetStatus(order, status, userId, t) ==
    [order EXCEPT !.status = status,
                  !.statusHistory = Append(@, HistoryEntry(status, userId, t))]

ShopMatchesAlways(order, actor) == TRUE

\* order.shop.toString() === req.user.shop.toString()
ShopMatches(order, actor) == order.shop = UserShop(actor)

StatusNotificationToActor(order, actor, oid, status, t) ==
    OrderStatusNotification(actor, oid, status, t)

\* Notification.createOrderStatusNotification(order.user, order._id, status, ...)
StatusNotification(order, actor, oid, status, t) ==
    OrderStatusNotification(order.user, oid, status, t)

updateOrderStatus(actor, oid, status) ==
    IF oid \notin DOMAIN orders
    THEN /\ resp' = Response("updateOrderStatus", "NotFound", oid)
         /\ UNCHANGED <<products, orders, notifications, shops, now, audit, calls>>
    ELSE IF ~ShopMatches(orders[oid], actor)
    THEN /\ resp' = Response("updateOrderStatus", "Forbidden", oid)
         /\ UNCHANGED <<products, orders, notifications, shops, now, audit, calls>>
    ELSE IF ~StatusValid(status)
    THEN /\ resp' = Response("updateOrderStatus", "ServerError", oid)
         /\ UNCHANGED <<products, orders, notifications, shops, now, audit, calls>>
    ELSE /\ orders' = [orders EXCEPT
                ![oid] = Hydrate(SetStatus(@, status, actor, now))]
         /\ IF status = NoStatus
            \* status.replace('_', ' ') in the notifier throws after the save
            THEN /\ resp' = Response("updateOrderStatus", "ServerError", oid)
                 /\ UNCHANGED notifications
            ELSE /\ notifications' = Append(notifications,
                        StatusNotification(orders[oid], actor, oid, status, now))
                 /\ resp' = Response("updateOrderStatus", "none", oid)
         /\ UNCHANGED <<products, shops, now, audit, calls>>

----------------------------------------------------------------------------
(* cancelOrder *)

CancellableUnlessCancelled(order) == order.status # "cancelled"

\* !['delivered', 'cancelled'].includes(order.status)
Cancellable(order) == order.status \notin {"delivered", "cancelled"}

ReleaseNothing(product, quantity) == product

\* product.stock += item.quantity; await product.save()
Release(product, quantity) ==
    ProductSave([product EXCEPT !.stock = @ + quantity])

\* The loop over the order's items; an item whose product is gone is skipped.
RECURSIVE ReleaseItems(_, _, _)
ReleaseItems(items, i, prods) ==
    IF i > Len(items) THEN prods
    ELSE LET p == items[i].product
         IN ReleaseItems(items, i + 1,
                IF p \in DOMAIN prods
                THEN [prods EXCEPT ![p] = Release(@, items[i].quantity)]
                ELSE prods)

\* order.user.toString() === req.user.id
IsOwner(order, userId) == order.user = userId

\* the units added back on behalf of an order, line by line
RECURSIVE ReleasedItems(_, _, _, _)
ReleasedItems(items, i, prods, released) ==
    IF i > Len(items) THEN released
    ELSE LET p == items[i].product
         IN ReleasedItems(items, i + 1, prods,
                IF p \in DOMAIN prods
                THEN [released EXCEPT ![p] = @ + items[i].quantity]
                ELSE released)

cancelOrder(userId, oid) ==
    IF oid \notin DOMAIN orders
    THEN /\ resp' = Response("cancelOrder", "NotFound", oid)
         /\ UNCHANGED <<products, orders, notifications, shops, now, audit, calls>>
    ELSE IF ~IsOwner(orders[oid], userId)
    THEN /\ resp' = Response("cancelOrder", "Forbidden", oid)
         /\ UNCHANGED <<products, orders, notifications, shops, now, audit, calls>>
    ELSE IF ~Cancellable(orders[oid])
    THEN /\ resp' = Response("cancelOrder", "InvalidTransition", oid)
         /\ UNCHANGED <<products, orders, notifications, shops, now, audit, calls>>
    ELSE /\ orders' = [orders EXCEPT
                ![oid] = SetStatus(@, "cancelled", userId, now)]
         /\ products' = ReleaseItems(orders[oid].items, 1, products)
         /\ audit' = [i \in DOMAIN audit |->
                [untouched |-> FALSE,
                 released |-> IF i = oid
                              THEN ReleasedItems(orders[oid].items, 1, products,
                                                 audit[i].released)
                              ELSE audit[i].released] @@ audit[i]]
         /\ resp' = Response("cancelOrder", "none", oid)
         /\ UNCHANGED <<notifications, shops, now, calls>>

----------------------------------------------------------------------------
(* cancelOrder, one awaited step at a time *)

EndCancel(c, u, oid, err) ==
    /\ calls' = [calls EXCEPT ![c] =
           [pc |-> "done", user |-> u, order |-> oid, err |-> err]]
    /\ resp' = Response("cancelOrder", err, oid)
    /\ UNCHANGED <<products, orders, notifications, shops, now, audit>>

\* const order = await Order.findById(req.params.id) and the three checks
cancelOrderFind(c, u, oid) ==
    /\ calls[c].pc = "idle"
    /\ IF oid \notin DOMAIN orders THEN EndCancel(c, u, oid, "NotFound")
       ELSE IF ~IsOwner(orders[oid], u) THEN EndCancel(c, u, oid, "Forbidden")
       ELSE IF ~Cancellable(orders[oid])
       THEN EndCancel(c, u, oid, "InvalidTransition")
       ELSE /\ calls' = [calls EXCEPT ![c] =
                   [pc |-> "cancel", user |-> u, order |-> oid,
                    items |-> orders[oid].items]]
            /\ UNCHANGED <<products, orders, notifications, shops, now,
                           resp, audit>>

\* the step after line k of the order: the next line, or the response
AfterLine(c, k) ==
    IF k < Len(calls[c].items)
    THEN /\ calls' = [calls EXCEPT ![c] = [pc |-> "find", line |-> k + 1] @@ @]
         /\ UNCHANGED resp
    ELSE /\ calls' = [calls EXCEPT ![c] = [pc |-> "done", err |-> "none"] @@ @]
         /\ resp' = Response("cancelOrder", "none", calls[c].order)

\* await order.save(): the status and the pushed history entry
cancelOrderSave(c) ==
    /\ calls[c].pc = "cancel"
    /\ orders' = [orders EXCEPT ![calls[c].order] =
           SetStatus(@, "cancelled", calls[c].user, now)]
    /\ calls' = [calls EXCEPT ![c] = [pc |-> "find", line |-> 1] @@ @]
    /\ UNCHANGED <<products, notifications, shops, now, resp, audit>>

\* const product = await Product.findById(item.product) of one line; a
\* line whose product is gone is skipped
cancelOrderFindProduct(c) ==
    /\ calls[c].pc = "find"
    /\ LET k == calls[c].line
           p == calls[c].items[k].product
       IN IF p \in DOMAIN products
          THEN /\ calls' = [calls EXCEPT ![c] =
                      [pc |-> "restore", loaded |-> products[p]] @@ @]
               /\ UNCHANGED resp
          ELSE AfterLine(c, k)
    /\ UNCHANGED <<products, orders, notifications, shops, now, audit>>

\* product.stock += item.quantity; await product.save() of one line
cancelOrderRestore(c) ==
    /\ calls[c].pc = "restore"
    /\ LET k == calls[c].line
           item == calls[c].items[k]
           p == item.product
       IN /\ products' = [products EXCEPT ![p] =
                 SaveModified(@, calls[c].loaded,
                     [calls[c].loaded EXCEPT !.stock = @ + item.quantity])]
          /\ audit' = [i \in DOMAIN audit |->
                 [untouched |-> FALSE,
                  released |-> IF i = calls[c].order
                               THEN [audit[i].released EXCEPT
                                        ![p] = @ + item.quantity]
                               ELSE audit[i].released] @@ audit[i]]
          /\ AfterLine(c, k)
    /\ UNCHANGED <<orders, notifications, shops, now>>

----------------------------------------------------------------------------
(* rateOrder *)

\* rating < 1 || rating > 5: both comparisons are false for undefined
RatingOutOfRange(rating) ==
    IsDefined(rating) /\ (rating[1] < MinRating \/ rating[1] > MaxRating)

RatedOrdersAnyShop(ords, shop) ==
    {i \in DOMAIN ords : IsDefined(ords[i].rating)}

\* Order.find({ shop, rating: { $exists: true } })
RatedOrders(ords, shop) ==
    {i \in DOMAIN ords : ords[i].shop = shop /\ IsDefined(ords[i].rating)}

RECURSIVE SumRatings(_, _)
SumRatings(ords, ids) ==
    IF ids = {} THEN 0
    ELSE LET i == CHOOSE j \in ids : TRUE
         IN ords[i].rating[1] + SumRatings(ords, ids \ {i})

rateOrder(userId, oid, rating) ==
    IF RatingOutOfRange(rating)
    THEN /\ resp' = Response("rateOrder", "RatingOutOfRange", oid)
         /\ UNCHANGED <<products, orders, notifications, shops, now, audit, calls>>
    ELSE IF oid \notin DOMAIN orders
    THEN /\ resp' = Response("rateOrder", "NotFound", oid)
         /\ UNCHANGED <<products, orders, notifications, shops, now, audit, calls>>
    ELSE IF ~IsOwner(orders[oid], userId)
    THEN /\ resp' = Response("rateOrder", "Forbidden", oid)
         /\ UNCHANGED <<products, orders, notifications, shops, now, audit, calls>>
    ELSE IF orders[oid].status # "delivered"
    THEN /\ resp' = Response("rateOrder", "InvalidTransition", oid)
         /\ UNCHANGED <<products, orders, notifications, shops, now, audit, calls>>
    ELSE IF IsDefined(orders[oid].rating)
    THEN /\ resp' = Response("rateOrder", "AlreadyRated", oid)
         /\ UNCHANGED <<products, orders, notifications, shops, now, audit, calls>>
    ELSE LET saved == [orders EXCEPT ![oid].rating = rating]
             shop == orders[oid].shop
             rated == RatedOrders(saved, shop)
         IN /\ orders' = saved
            /\ IF rated = {}
               \* 0 / 0 is NaN, which shop.save() rejects
               THEN /\ resp' = Response("rateOrder", "ServerError", oid)
                    /\ UNCHANGED shops
                    /\ UNCHANGED audit
               ELSE /\ shops' = [shops EXCEPT ![shop].rating =
                           Quotient(SumRatings(saved, rated), Cardinality(rated))]
                    /\ resp' = Response("rateOrder", "none", oid)
                    /\ audit' = [audit EXCEPT ![oid].ratedOk = @ + 1]
            /\ UNCHANGED <<products, notifications, now, calls>>

----------------------------------------------------------------------------
(* POST /api/shops/:id/rating *)

\* req.params.id of a shop route: the shops and one id that names none
ShopIds == Shops \cup {"sx"}

\* !rating || rating < 1 || rating > 5
ShopRatingInvalid(rating) ==
    \/ ~IsDefined(rating)
    \/ rating[1] = 0
    \/ rating[1] < MinRating
    \/ rating[1] > MaxRating

\* ((shop.rating * shop.totalRatings) + rating) / newTotalRatings
WeightedRating(shop, rating) ==
    Quotient(shop.rating[1] * shop.totalRatings + rating * shop.rating[2],
             shop.rating[2] * (shop.totalRatings + 1))

updateShopRating(sid, rating) ==
    IF ShopRatingInvalid(rating)
    THEN /\ resp' = Response("updateShopRating", "RatingOutOfRange", 0)
         /\ UNCHANGED <<products, orders, notifications, shops, now, audit, calls>>
    ELSE IF sid \notin Shops
    THEN /\ resp' = Response("updateShopRating", "NotFound", 0)
         /\ UNCHANGED <<products, orders, notifications, shops, now, audit, calls>>
    ELSE /\ shops' = [shops EXCEPT
                ![sid].rating = WeightedRating(shops[sid], rating[1]),
                ![sid].totalRatings = @ + 1]
         /\ resp' = Response("updateShopRating", "none", 0)
         /\ UNCHANGED <<products, orders, notifications, now, audit, calls>>

----------------------------------------------------------------------------
(* The notification routes *)

\* GET /unread-count
unreadCount(u) ==
    /\ resp' = [user |-> u,
                 unreadCount |-> getUnreadCount(notifications, u, now)]
                @@ Response("unreadCount", "none", 0)
    /\ UNCHANGED <<products, orders, notifications, shops, now, audit, calls>>

\* PUT /:id/read
readNotification(u, nid) ==
    IF nid \notin DOMAIN notifications \/ notifications[nid].user # u
    THEN /\ resp' = Response("readNotification", "NotFound", 0)
         /\ UNCHANGED <<products, orders, notifications, shops, now, audit, calls>>
    ELSE /\ notifications' = [notifications EXCEPT ![nid] = markAsRead(@, now)]
         /\ resp' = Response("readNotification", "none", 0)
         /\ UNCHANGED <<products, orders, shops, now, audit, calls>>

\* PUT /mark-all-read
markAllRead(u) ==
    /\ notifications' = markAllAsRead(notifications, u, now)
    /\ resp' = Response("markAllRead", "none", 0)
    /\ UNCHANGED <<products, orders, shops, now, audit, calls>>

\* DELETE /:id
deleteNotification(u, nid) ==
    IF nid \notin DOMAIN notifications \/ notifications[nid].user # u
    THEN /\ resp' = Response("deleteNotification", "NotFound", 0)
         /\ UNCHANGED <<products, orders, notifications, shops, now, audit, calls>>
    ELSE /\ notifications' = [i \in 1..(Len(notifications) - 1) |->
                IF i < nid THEN notifications[i] ELSE notifications[i + 1]]
         /\ resp' = Response("deleteNotification", "none", 0)
         /\ UNCHANGED <<products, orders, shops, now, audit, calls>>

\* a DELETE /delete-read request as the router dispatches it: DELETE /:id
\* is registered first and takes it with id "delete-read", which
\* findOneAndDelete cannot cast to an ObjectId
deleteReadRequest(u) ==
    /\ resp' = Response("deleteReadRequest", "ServerError", 0)
    /\ UNCHANGED <<products, orders, notifications, shops, now, audit, calls>>

\* the handler registered for DELETE /delete-read:
\* Notification.deleteMany({ user: req.user.id, isRead: true })
deleteRead(u) ==
    /\ notifications' = SelectSeq(notifications,
           LAMBDA n : ~(n.user = u /\ n.isRead))
    /\ resp' = Response("deleteRead", "none", 0)
    /\ UNCHANGED <<products, orders, shops, now, audit, calls>>

\* notification.markAsSent(), called by whatever delivers a stored
\* notification
sendNotification(nid) ==
    /\ nid \in DOMAIN notifications
    /\ ~notifications[nid].isSent
    /\ notifications' = [notifications EXCEPT ![nid] = markAsSent(@, now)]
    /\ resp' = Response("sendNotification", "none", 0)
    /\ UNCHANGED <<products, orders, shops, now, audit, calls>>

----------------------------------------------------------------------------
(* The product controller *)

\* the stock and price validators of productSchema (min 0), run by save()
\* and by findByIdAndUpdate with runValidators
ProductValid(doc) == doc.stock >= 0 /\ doc.price >= 0

\* the update document of findByIdAndUpdate: the paths the body names
\* are set, the others stay as stored
ApplyUpdate(doc, body) ==
    [doc EXCEPT !.stock = IF IsDefined(body.stock) THEN body.stock[1] ELSE @,
                !.price = IF IsDefined(body.price) THEN body.price[1] ELSE @,
                !.isAvailable = IF IsDefined(body.isAvailable)
                                THEN body.isAvailable[1] ELSE @]

\* PUT /products/:id: Product.findByIdAndUpdate(id, req.body,
\* { new: true, runValidators: true }); no save(), so no pre('save') hook
updateProduct(actor, p, body) ==
    IF p \notin DOMAIN products
    THEN /\ resp' = Response("updateProduct", "NotFound", 0)
         /\ UNCHANGED <<products, orders, notifications, shops, now, audit, calls>>
    ELSE IF products[p].shop # UserShop(actor)
    THEN /\ resp' = Response("updateProduct", "Forbidden", 0)
         /\ UNCHANGED <<products, orders, notifications, shops, now, audit, calls>>
    ELSE IF ~ProductValid(ApplyUpdate(products[p], body))
    THEN /\ resp' = Response("updateProduct", "ValidationError", 0)
         /\ UNCHANGED <<products, orders, notifications, shops, now, audit, calls>>
    ELSE /\ products' = [products EXCEPT ![p] = ApplyUpdate(@, body)]
         /\ resp' = Response("updateProduct", "none", 0)
         /\ audit' = [i \in DOMAIN audit |->
                IF products'[p].stock = products[p].stock THEN audit[i]
                ELSE [audit[i] EXCEPT !.untouched = FALSE]]
         /\ UNCHANGED <<orders, notifications, shops, now, calls>>

\* PUT /products/:id/stock: product.stock = stock; await product.save().
\* A body without stock fails the required validator.
updateStock(actor, p, stock) ==
    IF p \notin DOMAIN products
    THEN /\ resp' = Response("updateStock", "NotFound", 0)
         /\ UNCHANGED <<products, orders, notifications, shops, now, audit, calls>>
    ELSE IF products[p].shop # UserShop(actor)
    THEN /\ resp' = Response("updateStock", "Forbidden", 0)
         /\ UNCHANGED <<products, orders, notifications, shops, now, audit, calls>>
    ELSE IF ~IsDefined(stock) \/ ~ProductValid([products[p] EXCEPT !.stock = stock[1]])
    THEN /\ resp' = Response("updateStock", "ValidationError", 0)
         /\ UNCHANGED <<products, orders, notifications, shops, now, audit, calls>>
    ELSE /\ products' = [products EXCEPT
                ![p] = ProductSave([@ EXCEPT !.stock = stock[1]])]
         /\ resp' = Response("updateStock", "none", 0)
         /\ audit' = [i \in DOMAIN audit |->
                IF products'[p].stock = products[p].stock THEN audit[i]
                ELSE [audit[i] EXCEPT !.untouched = FALSE]]
         /\ UNCHANGED <<orders, notifications, shops, now, calls>>

\* DELETE /products/:id: await product.remove()
deleteProduct(actor, p) ==
    IF p \notin DOMAIN products
    THEN /\ resp' = Response("deleteProduct", "NotFound", 0)
         /\ UNCHANGED <<products, orders, notifications, shops, now, audit, calls>>
    ELSE IF products[p].shop # UserShop(actor)
    THEN /\ resp' = Response("deleteProduct", "Forbidden", 0)
         /\ UNCHANGED <<products, orders, notifications, shops, now, audit, calls>>
    ELSE /\ products' = [q \in DOMAIN products \ {p} |-> products[q]]
         /\ resp' = Response("deleteProduct", "none", 0)
         /\ audit' = [i \in DOMAIN audit |->
                [audit[i] EXCEPT !.untouched = FALSE]]
         /\ UNCHANGED <<orders, notifications, shops, now, calls>>

ToggleActiveAndRestock(product) ==
    [product EXCEPT !.isActive = ~@, !.stock = IF @ = 0 THEN 1 ELSE @]

\* product.isActive = !product.isActive
ToggleActive(product) == [product EXCEPT !.isActive = ~@]

toggleProductStatus(actor, p) ==
    IF p \notin DOMAIN products
    THEN /\ resp' = Response("toggleProductStatus", "NotFound", 0)
         /\ UNCHANGED <<products, orders, notifications, shops, now, audit, calls>>
    ELSE IF products[p].shop # UserShop(actor)
    THEN /\ resp' = Response("toggleProductStatus", "Forbidden", 0)
         /\ UNCHANGED <<products, orders, notifications, shops, now, audit, calls>>
    ELSE /\ products' = [products EXCEPT
                ![p] = ProductSave(ToggleActive(@))]
         /\ resp' = Response("toggleProductStatus", "none", 0)
         /\ UNCHANGED <<orders, notifications, shops, now, audit, calls>>

----------------------------------------------------------------------------

Init ==
    /\ products = InitProducts
    /\ orders = <<>>
    /\ notifications = <<>>
    /\ shops = InitShops
    /\ now = 0
    /\ resp = Response("init", "none", 0)
    /\ audit = <<>>
    /\ calls = [c \in CallIds |-> IdleCall]

Tick ==
    /\ now < MaxTime
    /\ now' = now + 1
    /\ resp' = Response("tick", "none", 0)
    /\ UNCHANGED <<products, orders, notifications, shops, audit, calls>>

\* days without a request
Elapse(days) ==
    /\ now' = now + days
    /\ resp' = Response("elapse", "none", 0)
    /\ UNCHANGED <<products, orders, notifications, shops, audit, calls>>

HistoryRoom(oid) ==
    oid \in DOMAIN orders => Len(orders[oid].statusHistory) < MaxHistory

RateRoom(oid) ==
    oid \in DOMAIN audit => audit[oid].ratedOk < MaxRateOk

\* The order controller, the product controller and the notification
\* routes, on every input
Next ==
    \/ \E u \in Customers, items \in Requests : createOrder(u, items)
    \/ \E a \in Owners, oid \in OrderIds, st \in StatusBodies :
          updateOrderStatus(a, oid, st)
    \/ \E u \in Customers, oid \in OrderIds : cancelOrder(u, oid)
    \/ \E u \in Customers, oid \in OrderIds, r \in RatingInputs :
          rateOrder(u, oid, r)
    \/ \E a \in Owners, p \in ProductIds : toggleProductStatus(a, p)
    \/ \E a \in Owners, p \in ProductIds, body \in UpdateBodies :
          updateProduct(a, p, body)
    \/ \E a \in Owners, p \in ProductIds, stock \in StockInputs :
          updateStock(a, p, stock)
    \/ \E a \in Owners, p \in ProductIds : deleteProduct(a, p)
    \/ \E u \in Users, nid \in NotificationIds : readNotification(u, nid)
    \/ \E u \in Users : markAllRead(u)
    \/ \E u \in Users : unreadCount(u)
    \/ \E u \in Users, nid \in NotificationIds : deleteNotification(u, nid)
    \/ \E u \in Users : deleteReadRequest(u)
    \/ \E u \in Users : deleteRead(u)
    \/ \E nid \in NotificationIds : sendNotification(nid)
    \/ \E sid \in ShopIds, r \in RatingInputs : updateShopRating(sid, r)
    \/ Tick

Spec == Init /\ [][Next]_vars

\* Reservation and release: order creation on every request of up to
\* MaxItems items, cancellation, and the owner of the first shop
\* deactivating and reactivating products
NextInventory ==
    \/ \E items \in Requests :
          Len(orders) < MaxOrders /\ createOrder("c1", items)
    \/ \E u \in Customers, oid \in OrderIds :
          HistoryRoom(oid) /\ cancelOrder(u, oid)
    \/ \E p \in ProductIds : toggleProductStatus("o1", p)

SpecInventory == Init /\ [][NextInventory]_vars

\* The life of an order: creation from one line item, status changes,
\* cancellation and rating, as time passes
NextLifecycle ==
    \/ \E u \in Customers, items \in SingleRequests :
          Len(orders) < MaxTracked /\ createOrder(u, items)
    \/ \E a \in Owners, oid \in OrderIds, st \in StatusInputs :
          HistoryRoom(oid) /\ updateOrderStatus(a, oid, st)
    \/ \E u \in Customers, oid \in OrderIds :
          HistoryRoom(oid) /\ cancelOrder(u, oid)
    \/ \E u \in Customers, oid \in OrderIds, r \in RatingInputs :
          RateRoom(oid) /\ rateOrder(u, oid, r)
    \/ Tick

SpecLifecycle == Init /\ [][NextLifecycle]_vars

\* Rating: orders of one line item and one unit, delivered and rated
NextRating ==
    \/ \E p \in ProductIds :
          /\ Len(orders) < MaxRated
          /\ createOrder("c1", <<[product |-> p, quantity |-> 1]>>)
    \/ \E a \in Owners, oid \in OrderIds :
          HistoryRoom(oid) /\ updateOrderStatus(a, oid, "delivered")
    \/ \E u \in Customers, oid \in OrderIds, r \in RatingInputs :
          RateRoom(oid) /\ rateOrder(u, oid, r)

SpecRating == Init /\ [][NextRating]_vars

\* Order creation by either customer on every request of up to MaxItems
\* items, while the shop owners deactivate and reactivate products
NextCreate ==
    \/ \E u \in Customers, items \in Requests :
          Len(orders) < MaxTracked /\ createOrder(u, items)
    \/ \E a \in Owners, p \in ProductIds : toggleProductStatus(a, p)

SpecCreate == Init /\ [][NextCreate]_vars

\* Notifications: one order of the first shop, its status changes, the
\* customer and the owner reading their notifications and asking for the
\* unread count, while a day or the expiry period passes
NextNotifications ==
    \/ /\ Len(orders) < MaxTracked
       /\ createOrder("c1", <<[product |-> "p1", quantity |-> 1]>>)
    \/ \E oid \in DOMAIN orders, st \in {"confirmed", "delivered"} :
          /\ Len(notifications) < MaxNotifications
          /\ updateOrderStatus("o1", oid, st)
    \/ \E u \in {"c1", "o1"}, nid \in NotificationIds : readNotification(u, nid)
    \/ \E u \in {"c1", "o1"} : markAllRead(u)
    \/ \E u \in Users : unreadCount(u)
    \/ Tick
    \/ now + ExpiryDays <= MaxClock /\ Elapse(ExpiryDays)

SpecNotifications == Init /\ [][NextNotifications]_vars

\* The catalogue and one order: the owner of the first shop updates,
\* restocks, deactivates and deletes products while a customer's order of
\* one line item is created, moved on, cancelled and rated
NextCatalog ==
    \/ \E q \in 1..MaxQty :
          /\ Len(orders) < MaxTracked
          /\ createOrder("c1", <<[product |-> "p1", quantity |-> q]>>)
    \/ \E oid \in DOMAIN orders, st \in {"delivered", "cancelled"} :
          HistoryRoom(oid) /\ updateOrderStatus("o1", oid, st)
    \/ \E oid \in DOMAIN orders : HistoryRoom(oid) /\ cancelOrder("c1", oid)
    \/ \E oid \in DOMAIN orders : RateRoom(oid) /\ rateOrder("c1", oid, Some(4))
    \/ \E p \in ProductIds, body \in UpdateBodies : updateProduct("o1", p, body)
    \/ \E p \in ProductIds, stock \in StockInputs : updateStock("o1", p, stock)
    \/ \E p \in ProductIds : toggleProductStatus("o1", p)
    \/ \E p \in ProductIds : deleteProduct("o1", p)

SpecCatalog == Init /\ [][NextCatalog]_vars

\* The inbox: the notifications of one order's customer and of the shop's
\* owner are delivered, read and deleted by the two of them
NextInbox ==
    \/ /\ Len(orders) < MaxTracked
       /\ createOrder("c1", <<[product |-> "p1", quantity |-> 1]>>)
    \/ \E oid \in DOMAIN orders, st \in {"confirmed", "delivered"} :
          HistoryRoom(oid) /\ updateOrderStatus("o1", oid, st)
    \/ \E u \in {"c1", "o1"}, nid \in NotificationIds : readNotification(u, nid)
    \/ \E u \in {"c1", "o1"} : markAllRead(u)
    \/ \E u \in {"c1", "o1"}, nid \in NotificationIds : deleteNotification(u, nid)
    \/ \E u \in {"c1", "o1"} : deleteReadRequest(u)
    \/ \E u \in {"c1", "o1"} : deleteRead(u)
    \/ \E nid \in NotificationIds : sendNotification(nid)
    \/ Tick

SpecInbox == Init /\ [][NextInbox]_vars

\* One order that is cancelled, moved on by its shop and cancelled again
NextRelease ==
    \/ \E q \in 1..MaxQty :
          /\ Len(orders) < MaxTracked
          /\ createOrder("c1", <<[product |-> "p1", quantity |-> q]>>)
    \/ \E oid \in DOMAIN orders, st \in {"pending", "confirmed", "cancelled"} :
          /\ Len(orders[oid].statusHistory) < MaxReleaseHistory
          /\ updateOrderStatus("o1", oid, st)
    \/ \E oid \in OrderIds :
          /\ oid \in DOMAIN orders =>
                 Len(orders[oid].statusHistory) < MaxReleaseHistory
          /\ cancelOrder("c1", oid)

SpecRelease == Init /\ [][NextRelease]_vars

\* createOrder and cancelOrder requests of one customer for the last
\* units of a product, their awaited steps interleaved in every order
NextOverlap ==
    \/ \E q \in 1..MaxQty :
          /\ Len(orders) < MaxOrders
          /\ createOrder("c1", <<[product |-> "p1", quantity |-> q]>>)
    \/ \E c \in CallIds, q \in 1..MaxQty :
          /\ Len(orders) < MaxOrders
          /\ createOrderFind(c, "c1", [product |-> "p1", quantity |-> q])
    \/ \E c \in CallIds : createOrderSave(c)
    \/ \E c \in CallIds : createOrderCount(c)
    \/ \E c \in CallIds : createOrderInsert(c)
    \/ \E c \in CallIds, oid \in OrderIds : cancelOrderFind(c, "c1", oid)
    \/ \E c \in CallIds : cancelOrderSave(c)
    \/ \E c \in CallIds : cancelOrderFindProduct(c)
    \/ \E c \in CallIds : cancelOrderRestore(c)

SpecOverlap == Init /\ [][NextOverlap]_vars

\* Orders placed and cancelled one request after the other, with no
\* other writer of stock
NextLedger ==
    \/ \E items \in Requests :
          Len(orders) < MaxOrders /\ createOrder("c1", items)
    \/ \E u \in Customers, oid \in OrderIds :
          HistoryRoom(oid) /\ cancelOrder(u, oid)

SpecLedger == Init /\ [][NextLedger]_vars

\* The rating of a shop: orders of both shops are delivered and rated
\* while customers post ratings of the shops themselves
NextShopRating ==
    \/ \E p \in {"p1", "p2"} :
          /\ Len(orders) < MaxRated
          /\ createOrder("c1", <<[product |-> p, quantity |-> 1]>>)
    \/ \E a \in Owners, oid \in DOMAIN orders :
          /\ orders[oid].status = "pending"
          /\ updateOrderStatus(a, oid, "delivered")
    \/ \E oid \in OrderIds, r \in {Undefined, Some(4), Some(5), Some(6)} :
          RateRoom(oid) /\ rateOrder("c1", oid, r)
    \/ \E sid \in ShopIds, r \in {Undefined, Some(0), Some(1), Some(5)} :
          /\ shops["s1"].totalRatings + shops["s2"].totalRatings
                < MaxShopRatings
          /\ updateShopRating(sid, r)

SpecShopRating == Init /\ [][NextShopRating]_vars

\* The status of one order: the shop sends every status, a string outside
\* the enum or no status at all; the customer cancels and rates
NextStatus ==
    \/ /\ Len(orders) < MaxTracked
       /\ createOrder("c1", <<[product |-> "p1", quantity |-> 1]>>)
    \/ \E a \in Owners, oid \in OrderIds, st \in StatusBodies :
          HistoryRoom(oid) /\ updateOrderStatus(a, oid, st)
    \/ \E oid \in OrderIds : HistoryRoom(oid) /\ cancelOrder("c1", oid)
    \/ \E oid \in OrderIds, r \in {Some(4), Some(6)} :
          RateRoom(oid) /\ rateOrder("c1", oid, r)

SpecStatus == Init /\ [][NextStatus]_vars

\* every product down to its last unit
LastUnitProducts ==
    [p \in DOMAIN InitProducts |->
        ProductSave([InitProducts[p] EXCEPT !.stock = 1])]

InitInterleaved ==
    /\ products = LastUnitProducts
    /\ orders = <<>>
    /\ notifications = <<>>
    /\ shops = InitShops
    /\ now = 0
    /\ resp = Response("init", "none", 0)
    /\ audit = <<>>
    /\ calls = [c \in CallIds |-> IdleCall]

\* createOrder requests for one unit of a product, their awaited steps
\* interleaved in every order
NextInterleaved ==
    \/ \E c \in CallIds, u \in Customers, p \in ProductIds :
          createOrderFind(c, u, [product |-> p, quantity |-> 1])
    \/ \E c \in CallIds : createOrderSave(c)
    \/ \E c \in CallIds : createOrderCount(c)
    \/ \E c \in CallIds : createOrderInsert(c)

SpecInterleaved == InitInterleaved /\ [][NextInterleaved]_vars

\* Order numbers: orders of one line item created one after another, on
\* the same day or on the next
NextNumbering ==
    \/ \E items \in SingleRequests :
          Len(orders) < MaxNumbered /\ createOrder("c1", items)
    \/ Tick

SpecNumbering == Init /\ [][NextNumbering]_vars

----------------------------------------------------------------------------
(* Properties *)

RECURSIVE SumLines(_, _)
\* the sum of price x quantity over the first n line items
SumLines(items, n) ==
    IF n = 0 THEN 0
    ELSE items[n].price * items[n].quantity + SumLines(items, n - 1)

Subtotal(order) == SumLines(order.items, Len(order.items))

RECURSIVE SumQty(_, _, _)
\* the units of product p requested by the first n line items
SumQty(items, n, p) ==
    IF n = 0 THEN 0
    ELSE (IF items[n].product = p THEN items[n].quantity ELSE 0)
         + SumQty(items, n - 1, p)

StockOf(prods) == [p \in DOMAIN prods |-> prods[p].stock]

C2_Reservation ==
    [][(resp'.op = "createOrder" /\ resp'.err = "created") =>
       \A items \in Requests :
          createOrder("c1", items) =>
              \A p \in DOMAIN products :
                  LET q == SumQty(items, Len(items), p)
                  IN /\ products'[p].stock = products[p].stock - q
                     /\ q >= 1 =>
                          products'[p].isAvailable = (products'[p].stock > 0)]_vars

C2_Witness ==
    /\ resp.op = "createOrder"
    /\ resp.err = "created"
    /\ \E p \in DOMAIN products :
          /\ SumQty(orders[resp.order].items, Len(orders[resp.order].items), p) >= 1
          /\ products[p].stock = 0
          /\ ~products[p].isAvailable
    /\ \E p \in DOMAIN products :
          /\ SumQty(orders[resp.order].items, Len(orders[resp.order].items), p) >= 1
          /\ products[p].stock > 0
          /\ products[p].isAvailable

ForwardPath ==
    <<"pending", "confirmed", "preparing", "ready_for_pickup",
      "out_for_delivery", "delivered">>

OnPath(status) == \E k \in DOMAIN ForwardPath : ForwardPath[k] = status

Rank(status) == CHOOSE k \in DOMAIN ForwardPath : ForwardPath[k] = status

C8_UpdateFailures ==
    [][resp'.op = "updateOrderStatus" =>
       \A a \in Owners, oid \in OrderIds, st \in StatusInputs :
          updateOrderStatus(a, oid, st) =>
              /\ oid \notin DOMAIN orders =>
                    /\ resp'.err = "NotFound"
                    /\ orders' = orders /\ notifications' = notifications
              /\ (oid \in DOMAIN orders /\ orders[oid].shop # UserShop(a)) =>
                    /\ resp'.err = "Forbidden"
                    /\ orders' = orders /\ notifications' = notifications]_vars

C8_Witness ==
    /\ resp.op = "updateOrderStatus"
    /\ resp.err = "Forbidden"
    /\ resp.order \in DOMAIN orders

ExpectedMessage(st) ==
    IF st = "confirmed"
    THEN "Your order has been confirmed and is being prepared."
    ELSE IF st = "preparing"
    THEN "Your order is being prepared and will be ready soon."
    ELSE IF st = "ready_for_pickup"
    THEN "Your order is ready for pickup!"
    ELSE IF st = "out_for_delivery"
    THEN "Your order is out for delivery and will reach you soon."
    ELSE IF st = "delivered"
    THEN "Your order has been delivered successfully!"
    ELSE "Your order status has been updated to " \o st \o "."

LineOk(items, k, prods) ==
    LET p == items[k].product
    IN /\ p \in DOMAIN prods
       /\ prods[p].isActive
       /\ items[k].quantity <= prods[p].stock - SumQty(items, k - 1, p)

C13_NoRollback ==
    [][(/\ resp'.op = "createOrder"
        /\ resp'.err \in {"NotFound", "Unavailable", "InsufficientStock"}) =>
       \A u \in Customers, items \in Requests :
          createOrder(u, items) =>
              /\ orders' = orders
              /\ \E k \in DOMAIN items :
                    /\ ~LineOk(items, k, products)
                    /\ \A j \in 1..(k - 1) : LineOk(items, j, products)
                    /\ \A p \in DOMAIN products :
                           products'[p].stock =
                               products[p].stock - SumQty(items, k - 1, p)]_vars

C13_Witness ==
    /\ resp.op = "createOrder"
    /\ resp.err = "NotFound"
    /\ orders = <<>>
    /\ products["p1"].stock = InitStock - 2
    /\ products["p2"].stock = InitStock

Digit(d) == <<"0", "1", "2", "3", "4", "5", "6", "7", "8", "9">>[d + 1]

\* the two decimal digits of n < 100
TwoDigits(n) == Digit(n \div 10) \o Digit(n % 10)

\* the four decimal digits of n < 10000
FourDigits(n) == TwoDigits(n \div 100) \o TwoDigits(n % 100)

\* YYMMDD of day t: 31 December 2024, then the days of January 2025
DayStamp(t) == IF t = 0 THEN "241231" ELSE "2501" \o TwoDigits(t)

RECURSIVE UnitsHeld(_, _, _)
\* the units of product p held by the first n persisted orders
UnitsHeld(ords, n, p) ==
    IF n = 0 THEN 0
    ELSE SumQty(ords[n].items, Len(ords[n].items), p) + UnitsHeld(ords, n - 1, p)

\* the requests for product p that were answered with the created order
Created(p) ==
    {c \in CallIds : /\ calls[c].pc = "done"
                     /\ calls[c].err = "created"
                     /\ calls[c].item.product = p}

RECURSIVE CountLive(_, _, _, _)
\* how many of the first n notifications are for user u, not read, and
\* expire after day t
CountLive(notifs, n, u, t) ==
    IF n = 0 THEN 0
    ELSE (IF /\ notifs[n].user = u
             /\ ~notifs[n].isRead
             /\ notifs[n].expiresAt # <<>>
             /\ ~(notifs[n].expiresAt[1] <= t)
          THEN 1 ELSE 0) + CountLive(notifs, n - 1, u, t)

\* C17: in every state and for every user, getUnreadCount is the number
\* of that user's notifications that are unread and expire strictly after
\* now, and so is the count the unread-count route answers; it is 0 when
\* each of the user's notifications is read or has expired.
C17_UnreadCount ==
    /\ \A u \in Users :
          /\ getUnreadCount(notifications, u, now)
                 = CountLive(notifications, Len(notifications), u, now)
          /\ (\A i \in DOMAIN notifications :
                  notifications[i].user = u =>
                      \/ notifications[i].isRead
                      \/ notifications[i].expiresAt = <<>>
                      \/ notifications[i].expiresAt[1] <= now)
                => getUnreadCount(notifications, u, now) = 0
    /\ resp.op = "unreadCount" =>
          /\ resp.code = 200
          /\ resp.unreadCount
                 = CountLive(notifications, Len(notifications), resp.user, now)

C17_Witness ==
    /\ resp.op = "unreadCount"
    /\ resp.user = "c1"
    /\ resp.unreadCount = 1
    /\ \E i, j, k \in DOMAIN notifications :
          /\ notifications[i].user = "c1" /\ notifications[i].expiresAt = <<now>>
          /\ ~notifications[i].isRead
          /\ notifications[j].user = "c1" /\ notifications[j].isRead
          /\ notifications[j].expiresAt[1] > now
          /\ notifications[k].user = "c1" /\ ~notifications[k].isRead
          /\ notifications[k].expiresAt[1] > now

\* C18: in every reachable state every product has
\* isAvailable = (stock > 0).
C18_AvailabilityFollowsStock ==
    \A p \in DOMAIN products :
        products[p].isAvailable = (products[p].stock > 0)

\* C19 as claimed: a product's stock changes only in a createOrder or a
\* cancelOrder request.
C19_Original ==
    [][\A p \in DOMAIN products \cap DOMAIN products' :
          products'[p].stock # products[p].stock =>
              resp'.op \in {"createOrder", "cancelOrder"}]_vars

\* C19 as amended: a product's stock changes only in a createOrder
\* request (reservation), a successful cancelOrder request (release) or
\* a successful updateStock or updateProduct request of the product's
\* shop; no other operation changes it.
C19_StockWriters ==
    [][\A p \in DOMAIN products \cap DOMAIN products' :
          products'[p].stock # products[p].stock =>
              \/ resp'.op = "createOrder"
              \/ resp'.op = "cancelOrder" /\ resp'.err = "none"
              \/ /\ resp'.op \in {"updateStock", "updateProduct"}
                 /\ resp'.err = "none"
                 /\ \E a \in Owners :
                       /\ UserShop(a) = products[p].shop
                       /\ \/ \E st \in StockInputs : updateStock(a, p, st)
                          \/ \E body \in UpdateBodies : updateProduct(a, p, body)]_vars

C19_Witness ==
    /\ resp.op = "updateStock"
    /\ resp.err = "none"
    /\ "p1" \in DOMAIN products
    /\ products["p1"].stock = 0
    /\ Len(orders) = 1
    /\ orders[1].status = "cancelled"
    /\ orders[1].items[1].quantity = 2

\* C20: once an order is persisted, the unit price and line total of
\* each of its items and its total stay as they were at creation,
\* whatever happens to the product's price and to the order.
C20_PriceSnapshot ==
    [][\A oid \in DOMAIN orders :
          /\ oid \in DOMAIN orders'
          /\ orders'[oid].total = orders[oid].total
          /\ Len(orders'[oid].items) = Len(orders[oid].items)
          /\ \A k \in DOMAIN orders[oid].items :
                /\ orders'[oid].items[k].price = orders[oid].items[k].price
                /\ orders'[oid].items[k].total = orders[oid].items[k].total]_vars

C20_Witness ==
    /\ Len(orders) = 1
    /\ "p1" \in DOMAIN products
    /\ products["p1"].price = 100
    /\ orders[1].items[1].price = 250
    /\ orders[1].items[1].total = 500
    /\ orders[1].total = 550
    /\ orders[1].status = "delivered"
    /\ IsDefined(orders[1].rating)

\* C21: every persisted notification has expiresAt set, to its creation
\* time plus 30 days when it was created without one, and no step (among
\* them markAsRead, markAsSent and markAllAsRead) clears or changes it.
C21_ExpirySet ==
    \A i \in DOMAIN notifications :
        /\ notifications[i].expiresAt # <<>>
        /\ notifications[i].expiresAt = <<notifications[i].createdAt + 30>>

C21_Witness ==
    \E i, j \in DOMAIN notifications :
        /\ i # j
        /\ notifications[i].isRead /\ notifications[i].isSent
        /\ notifications[i].readAt = <<notifications[i].createdAt + 1>>
        /\ notifications[i].sentAt = <<notifications[i].createdAt + 1>>
        /\ notifications[j].isRead
        /\ resp.op = "markAllRead"
        /\ notifications[j].readAt = <<now>>
        /\ ~notifications[j].isSent

\* C22: every persisted order's status is one of the eight statuses of
\* the enum, and an updateOrderStatus request that carries a status
\* outside the enum leaves every stored order as it was.
C22_StatusInEnum ==
    [][/\ \A oid \in DOMAIN orders' :
             orders'[oid].status \in
                 {"pending", "confirmed", "preparing", "ready_for_pickup",
                  "out_for_delivery", "delivered", "cancelled", "refunded"}
       /\ resp'.op = "updateOrderStatus" =>
             \A a \in Owners, oid \in OrderIds :
                 updateOrderStatus(a, oid, "archived") =>
                     /\ orders' = orders
                     /\ resp'.err # "none"]_vars

C22_Witness ==
    /\ resp.op = "updateOrderStatus"
    /\ resp.err = "ServerError"
    /\ Len(orders) = 1
    /\ orders[1].status = "refunded"
    /\ Len(orders[1].statusHistory) = 1
    /\ notifications[Len(notifications)].message
           = "Your order status has been updated to refunded."

RECURSIVE UnitsLive(_, _, _)
\* the units of product p in those of the first n persisted orders that
\* are not cancelled
UnitsLive(ords, n, p) ==
    IF n = 0 THEN 0
    ELSE (IF ords[n].status = "cancelled" THEN 0
          ELSE SumQty(ords[n].items, Len(ords[n].items), p))
         + UnitsLive(ords, n - 1, p)

\* C25: with createOrder and cancelOrder run one after the other and no
\* other writer of stock, for every product the current stock plus the
\* units of it in the persisted orders that are not cancelled equals the
\* product's initial stock.
C25_StockConserved ==
    \A p \in DOMAIN products :
        products[p].stock + UnitsLive(orders, Len(orders), p) = InitStock

\* the units of product p in the line items of an order
UnitsOf(order, p) == SumQty(order.items, Len(order.items), p)

Inbox(notifs, v) == SelectSeq(notifs, LAMBDA n : n.user = v)

\* C30: marking one notification read, marking all read, deleting one
\* and deleting all read, done by one user, leave the notifications
\* addressed to every other user as they were, and with them every other
\* user's unread count; after markAllAsRead(u) the unread count of u is 0.
C30_InboxIsolation ==
    [][resp'.op \in {"readNotification", "markAllRead", "deleteNotification",
                     "deleteRead", "deleteReadRequest"} =>
          \A u \in {"c1", "o1"} :
              (\/ markAllRead(u)
               \/ deleteRead(u)
               \/ deleteReadRequest(u)
               \/ \E nid \in NotificationIds :
                     readNotification(u, nid) \/ deleteNotification(u, nid)) =>
                  /\ \A v \in Users \ {u} :
                        /\ Inbox(notifications', v) = Inbox(notifications, v)
                        /\ CountLive(notifications', Len(notifications'), v, now)
                              = CountLive(notifications, Len(notifications), v, now)
                  /\ markAllRead(u) =>
                        CountLive(notifications', Len(notifications'), u, now) = 0]_vars

C30_Witness ==
    /\ resp.op = "markAllRead"
    /\ Len(Inbox(notifications, "c1")) = 2
    /\ \A i \in DOMAIN notifications :
          notifications[i].user = "c1" =>
              notifications[i].isRead /\ notifications[i].readAt = <<now>>
    /\ \E i \in DOMAIN notifications :
          notifications[i].user = "o1" /\ ~notifications[i].isRead

====
